---------------------------- MODULE Spec2Model ----------------------------
(***************************************************************************)
(* A model of the zipcodes package (src/zipcodes.go): the dataset loader   *)
(* loadDataset behind LoadDataset / LoadDatasetByCountry, the Lookup       *)
(* query, the haversine distance DistanceBetweenPoints and the radius      *)
(* search FindZipcodesWithinRadius.                                        *)
(*                                                                         *)
(* Strings the code inspects are sequences of one-character strings: a     *)
(* line of the dataset is the sequence of its characters, TAB included,    *)
(* and strings.Split, len, strings.ToUpper and strconv.ParseFloat work on  *)
(* those characters.                                                       *)
(*                                                                         *)
(* float64 values are fixed-point integers.  Degrees are counted in        *)
(* 1/DegScale of a degree, radians and the trigonometric values in         *)
(* 1/SCALE, and a distance returned by DistanceBetweenPoints in            *)
(* hundredths of the unit (the code rounds to two decimals).  Every        *)
(* fixed-point operation rounds to nearest, half away from zero, so that   *)
(* it is sign-symmetric like the IEEE operation it stands for.             *)
(***************************************************************************)
EXTENDS Integers, Sequences, FiniteSets, TLC

\* ------------------------------------------------------------------ bounds

\* Largest number of lines of the dataset file.
MaxLines == 3

\* ------------------------------------------------------- program constants

earthRadiusKm == 6371
earthRadiusMi == 3958

\* Number of tab separated fields of a well formed line.
NumFields == 12

\* Fixed-point unit of radians and of sin, cos, sqrt and atan values.
SCALE == 10000

\* Fixed-point unit of degrees: coordinates are kept in tenths of a degree.
DegScale == 10

\* math.Pi in units of 1/SCALE.
PI == 31416

\* --------------------------------------------------------------- strings

TAB == "\t"

Digits == {"0", "1", "2", "3", "4", "5", "6", "7", "8", "9"}

DigitVal(c) ==
    CASE c = "0" -> 0 [] c = "1" -> 1 [] c = "2" -> 2 [] c = "3" -> 3
      [] c = "4" -> 4 [] c = "5" -> 5 [] c = "6" -> 6 [] c = "7" -> 7
      [] c = "8" -> 8 [] c = "9" -> 9

\* unicode.ToUpper on the letters of the model's alphabet.
ToUpperChar(c) ==
    CASE c = "u" -> "U" [] c = "s" -> "S" [] c = "d" -> "D" [] c = "e" -> "E"
      [] OTHER -> c

\* strings.ToUpper
ToUpper(s) == [i \in 1..Len(s) |-> ToUpperChar(s[i])]

\* Index of the first sep in s at or after position from, or 0.
RECURSIVE IndexFrom(_, _, _)
IndexFrom(s, sep, from) ==
    IF from > Len(s) THEN 0
    ELSE IF s[from] = sep THEN from
    ELSE IndexFrom(s, sep, from + 1)

\* strings.Split(s, sep) for a one-character separator: the substrings
\* between the separators, empty ones included; a string without a
\* separator (the empty string too) gives one field.
RECURSIVE Split(_, _)
Split(s, sep) ==
    LET i == IndexFrom(s, sep, 1)
    IN  IF i = 0 THEN <<s>>
        ELSE <<SubSeq(s, 1, i - 1)>> \o Split(SubSeq(s, i + 1, Len(s)), sep)

\* ------------------------------------------------------ strconv.ParseFloat

AllDigits(s) == \A i \in 1..Len(s) : s[i] \in Digits

RECURSIVE DecValue(_)
DecValue(s) ==
    IF Len(s) = 0 THEN 0
    ELSE 10 * DecValue(SubSeq(s, 1, Len(s) - 1)) + DigitVal(s[Len(s)])

\* The first fractional digit, the precision the model keeps (DegScale).
FracValue(s) == IF Len(s) = 0 THEN 0 ELSE DigitVal(s[1])

\* strconv.ParseFloat(s, 64) on the model's alphabet (digits, sign, point
\* and letters): an optional sign, then digits with an optional point and
\* at least one digit.  ok is errLat == nil; val is in 1/DegScale.
ParseFloat(s) ==
    LET signed == Len(s) > 0 /\ s[1] \in {"-", "+"}
        neg    == Len(s) > 0 /\ s[1] = "-"
        body   == IF signed THEN SubSeq(s, 2, Len(s)) ELSE s
        dot    == IndexFrom(body, ".", 1)
        ip     == IF dot = 0 THEN body ELSE SubSeq(body, 1, dot - 1)
        fp     == IF dot = 0 THEN <<>> ELSE SubSeq(body, dot + 1, Len(body))
        ok     == AllDigits(ip) /\ AllDigits(fp) /\ Len(ip) + Len(fp) > 0
        mag    == DecValue(ip) * DegScale + FracValue(fp)
    IN  IF ok THEN [ok |-> TRUE, val |-> IF neg THEN -mag ELSE mag]
        ELSE [ok |-> FALSE, val |-> 0]

\* ---------------------------------------------------- fixed-point float64

Abs(x) == IF x < 0 THEN -x ELSE x

\* a / b rounded to nearest, half away from zero (b > 0).
RDiv(a, b) ==
    IF a >= 0 THEN (2 * a + b) \div (2 * b)
    ELSE -((2 * (-a) + b) \div (2 * b))

\* Product of two values in 1/SCALE.
FMul(x, y) == RDiv(x * y, SCALE)

\* sin on [-Pi/4, Pi/4]: z - z^3/3! + z^5/5! - z^7/7!
SinPoly(z) ==
    LET z2 == FMul(z, z)
        z3 == FMul(z2, z)
        z5 == FMul(z3, z2)
        z7 == FMul(z5, z2)
    IN  z - RDiv(z3, 6) + RDiv(z5, 120) - RDiv(z7, 5040)

\* cos on [-Pi/4, Pi/4]: 1 - z^2/2! + z^4/4! - z^6/6!
CosPoly(z) ==
    LET z2 == FMul(z, z)
        z4 == FMul(z2, z2)
        z6 == FMul(z4, z2)
    IN  SCALE - RDiv(z2, 2) + RDiv(z4, 24) - RDiv(z6, 720)

\* sin on [0, 2 Pi): the argument reduced to an octant.
SinAbs(ax) ==
    IF 4 * ax <= PI THEN SinPoly(ax)
    ELSE IF 4 * ax <= 3 * PI THEN CosPoly(ax - PI \div 2)
    ELSE IF 4 * ax <= 5 * PI THEN -SinPoly(ax - PI)
    ELSE IF 4 * ax <= 7 * PI THEN -CosPoly(ax - (3 * PI) \div 2)
    ELSE SinPoly(ax - 2 * PI)

Sgn(x) == IF x < 0 THEN -1 ELSE 1

\* math.Sin: odd, so the sign is taken off and put back.
Sin(x) == Sgn(x) * SinAbs(Abs(x) % (2 * PI))

\* cos on [0, 2 Pi)
CosAbs(ax) ==
    IF 4 * ax <= PI THEN CosPoly(ax)
    ELSE IF 4 * ax <= 3 * PI THEN -SinPoly(ax - PI \div 2)
    ELSE IF 4 * ax <= 5 * PI THEN -CosPoly(ax - PI)
    ELSE IF 4 * ax <= 7 * PI THEN SinPoly(ax - (3 * PI) \div 2)
    ELSE CosPoly(ax - 2 * PI)

\* math.Cos: even.
Cos(x) == CosAbs(Abs(x) % (2 * PI))

\* The largest r in lo..hi with r * r <= n, by bisection.
RECURSIVE ISqrt(_, _, _)
ISqrt(n, lo, hi) ==
    IF lo >= hi THEN lo
    ELSE LET mid == (lo + hi + 1) \div 2
             up  == mid * mid <= n
         IN  ISqrt(n, IF up THEN mid ELSE lo, IF up THEN hi ELSE mid - 1)

\* Of r and r + 1, the one whose square is nearer to n.
NearestRoot(n, r) == IF (r + 1) * (r + 1) - n < n - r * r THEN r + 1 ELSE r

\* math.Sqrt of a value in [0, 1], in 1/SCALE.
Sqrt(x) == NearestRoot(x * SCALE, ISqrt(x * SCALE, 0, SCALE))

\* atan on [-0.66, 0.66]: z - z^3/3 + z^5/5 - ... up to z^19/19
RECURSIVE AtanSeries(_, _, _)
AtanSeries(z2, pow, k) ==
    IF k > 19 THEN 0
    ELSE RDiv(pow, k) - AtanSeries(z2, FMul(pow, z2), k + 2)

xatan(z) == AtanSeries(FMul(z, z), z, 1)

\* math.Atan of z >= 0 (satan): reduced to the range of xatan.
satan(z) ==
    IF 100 * z <= 66 * SCALE THEN xatan(z)
    ELSE IF 10000 * z > 24142 * SCALE THEN PI \div 2 - xatan(RDiv(SCALE * SCALE, z))
    ELSE RDiv(PI, 4) + xatan(RDiv((z - SCALE) * SCALE, z + SCALE))

\* math.Atan2(y, x) for y >= 0 and x >= 0, the only quadrant the
\* haversine reaches (both arguments are square roots).
Atan2(y, x) ==
    IF x = 0 THEN (IF y = 0 THEN 0 ELSE PI \div 2)
    ELSE IF y = 0 THEN 0
    ELSE IF y >= 4 * x THEN PI \div 2 - xatan(RDiv(x * SCALE, y))
    ELSE satan(RDiv(y * SCALE, x))

\* ------------------------------------------------------------ the queries

\* math.Pow(math.Sin(t/2), 2)
Pow2(x) == FMul(x, x)

hsin(t) == Pow2(Sin(RDiv(t, 2)))

\* d * math.Pi / 180, d in 1/DegScale of a degree, the result in 1/SCALE.
degreesToRadians(d) == RDiv(d * PI, 180 * DegScale)

\* math.Round(x * 100) of a distance x in 1/SCALE: the result counts
\* hundredths, the unit of every distance the package returns.
Round100(x) == RDiv(x, SCALE \div 100)

\* 2 * math.Atan2(math.Sqrt(a), math.Sqrt(1-a))
CentralAngle(a) == 2 * Atan2(Sqrt(a), Sqrt(SCALE - a))

\* The haversine with the cosine of the first latitude taken twice.
DistanceFirstLatitudeTwice(latitude1, longitude1, latitude2, longitude2, radius) ==
    LET lat1    == degreesToRadians(latitude1)
        lon1    == degreesToRadians(longitude1)
        lat2    == degreesToRadians(latitude2)
        lon2    == degreesToRadians(longitude2)
        a       == hsin(lat2 - lat1) + FMul(FMul(Cos(lat1), Cos(lat1)), hsin(lon2 - lon1))
    IN  Round100(CentralAngle(a) * radius)

\* The haversine distance; radius is a whole number of km or miles.
DistanceBetweenPoints(latitude1, longitude1, latitude2, longitude2, radius) ==
    LET lat1    == degreesToRadians(latitude1)
        lon1    == degreesToRadians(longitude1)
        lat2    == degreesToRadians(latitude2)
        lon2    == degreesToRadians(longitude2)
        diffLat == lat2 - lat1
        diffLon == lon2 - lon1
        a       == hsin(diffLat) + FMul(FMul(Cos(lat1), Cos(lat2)), hsin(diffLon))
        c       == CentralAngle(a)
        distance == c * radius
    IN  Round100(distance)

\* Errors are records; the two of Lookup are the package's variables.
NoError            == [kind |-> "nil"]
ErrMultipleLatLon  == [kind |-> "zipcode has multiple lat/lon coordinates"]
ErrZipcodeNotFound == [kind |-> "zipcode not found"]

\* A Go map is a function on the set of its keys.
EmptyMap == <<>>

\* m[k] of a Go map: the zero value (a nil slice) for a key not in it.
MapGet(m, k) == IF k \in DOMAIN m THEN m[k] ELSE <<>>

MapPut(m, k, v) == [x \in DOMAIN m \cup {k} |-> IF x = k THEN v ELSE m[x]]

\* Lookup without the check of the number of records.
LookupFirstOnly(zc, zipCode) ==
    IF zipCode \notin DOMAIN zc.DatasetList
    THEN [data |-> <<>>, err |-> ErrZipcodeNotFound]
    ELSE [data |-> zc.DatasetList[zipCode], err |-> NoError]

\* Zipcodes.Lookup: the pair (data, error) it returns.
Lookup(zc, zipCode) ==
    IF zipCode \notin DOMAIN zc.DatasetList
    THEN [data |-> <<>>, err |-> ErrZipcodeNotFound]
    ELSE IF Len(zc.DatasetList[zipCode]) > 1
    THEN [data |-> zc.DatasetList[zipCode], err |-> ErrMultipleLatLon]
    ELSE [data |-> zc.DatasetList[zipCode], err |-> NoError]

\* ------------------------------------------------------------ the dataset

\* fields joined by TAB: the text of a line with these fields.
RECURSIVE Join(_)
Join(fields) ==
    IF Len(fields) = 0 THEN <<>>
    ELSE IF Len(fields) = 1 THEN fields[1]
    ELSE fields[1] \o <<TAB>> \o Join(Tail(fields))

US == <<"U", "S">>
DE == <<"D", "E">>

Code01 == <<"0", "1">>
Code02 == <<"0", "2">>
Code03 == <<"0", "3">>
CodeXYZ == <<"X", "Y", "Z">>

WRONG == <<"W", "R", "O", "N", "G">>

\* A line of the GeoNames format: country, postal code, place name, admin
\* name 1, admin code 1, four unused admin fields, latitude, longitude,
\* accuracy.
Line(country, code, place, lat, lon) ==
    Join(<<country, code, place, <<"B">>, <<"B", "B">>, <<>>, <<>>, <<>>, <<>>,
           lat, lon, <<"4">>>>)

LineUS01 == Line(US, Code01, <<"G">>, <<"0">>, <<"0">>)
LineUS02a == Line(US, Code02, <<"H">>, <<"0">>, <<"3", "0">>)
LineUS02b == Line(US, Code02, <<"K">>, <<"3", "0">>, <<"0">>)
LineDE03 == Line(DE, Code03, <<"M">>, <<"-", "3", "0", ".", "5">>, <<"6", "0">>)
LineDE01 == Line(DE, Code01, <<"N">>, <<"1", "0">>, <<"1", "0">>)
\* As datasets/wrong_length_dataset.txt: a line of 11 fields.
LineShort == Join(<<DE, Code03, <<"M">>, <<"B">>, <<"B", "B">>, <<>>, <<>>, <<>>, <<>>,
                    <<"0">>, <<"0">>>>)
\* As datasets/wrong_lat_dataset.txt and wrong_lon_dataset.txt.
LineBadLat == Line(US, Code02, <<"H">>, WRONG, <<"W">>)
LineBadLon == Line(DE, Code03, <<"M">>, <<"0">>, WRONG)

LineSet == {LineUS01, LineUS02a, LineUS02b, LineDE03, LineDE01,
            LineShort, LineBadLat, LineBadLon}

\* The files of at most MaxLines lines.
Files == UNION {[1..n -> LineSet] : n \in 0..MaxLines}

\* The path of the dataset, and a path at which there is no file.
DatasetPath == "datasets/valid_dataset.txt"
MissingPath == "datasets/missing.txt"
Paths == {DatasetPath, MissingPath}

\* The country arguments of LoadDatasetByCountry.
CountryArgs == {<<>>, <<"U">>, US, <<"u", "s">>, DE, <<"U", "S", "A">>}

\* The codes looked up.
Codes == {Code01, Code02, Code03, CodeXYZ}

\* The location TestFindZipcodesWithinRadius builds by hand (no StateCode).
Probe == [ZipCode |-> Code01, PlaceName |-> <<"G">>, AdminName |-> <<"B">>,
          Lat |-> 0, Lon |-> 0, StateCode |-> <<>>]

\* ------------------------------------------------- distances and radius

CalculateDistance(zipcodeLocationA, zipcodeLocationB, radius) ==
    DistanceBetweenPoints(zipcodeLocationA.Lat, zipcodeLocationA.Lon,
                          zipcodeLocationB.Lat, zipcodeLocationB.Lon, radius)

DistanceInKm(zipcodeLocationA, zipcodeLocationB) ==
    CalculateDistance(zipcodeLocationA, zipcodeLocationB, earthRadiusKm)

DistanceInMiles(zipcodeLocationA, zipcodeLocationB) ==
    CalculateDistance(zipcodeLocationA, zipcodeLocationB, earthRadiusMi)

\* The origin is told from the records by its coordinates.
InRadiusByPosition(zcls, zipcodeLocation, maxRadius, earthRadius) ==
    /\ <<zcls.Lat, zcls.Lon>> # <<zipcodeLocation.Lat, zipcodeLocation.Lon>>
    /\ DistanceBetweenPoints(zipcodeLocation.Lat, zipcodeLocation.Lon,
                             zcls.Lat, zcls.Lon, earthRadius) < maxRadius

\* The record at the radius is in it.
InRadiusInclusive(zcls, zipcodeLocation, maxRadius, earthRadius) ==
    /\ zcls.ZipCode # zipcodeLocation.ZipCode
    /\ DistanceBetweenPoints(zipcodeLocation.Lat, zipcodeLocation.Lon,
                             zcls.Lat, zcls.Lon, earthRadius) <= maxRadius

\* Lines 107-109: the record is not of the origin's code and is nearer than
\* maxRadius.
InRadius(zcls, zipcodeLocation, maxRadius, earthRadius) ==
    /\ zcls.ZipCode # zipcodeLocation.ZipCode
    /\ DistanceBetweenPoints(zipcodeLocation.Lat, zipcodeLocation.Lon,
                             zcls.Lat, zcls.Lon, earthRadius) < maxRadius

\* The appends of the loops, one after the other: the concatenation of the
\* sequences of ss.
RECURSIVE Flatten(_)
Flatten(ss) == IF Len(ss) = 0 THEN <<>> ELSE Head(ss) \o Flatten(Tail(ss))

\* The inner loop of FindZipcodesWithinRadius over the records of one key:
\* the code of every record in the radius, in the order of the records.
WithinRadiusOf(elm, zipcodeLocation, maxRadius, earthRadius) ==
    LET found == SelectSeq(elm, LAMBDA zcls :
                     InRadius(zcls, zipcodeLocation, maxRadius, earthRadius))
    IN  [i \in 1..Len(found) |-> found[i].ZipCode]

\* FindZipcodesWithinRadius, the keys of the map ranged over in the order
\* keys: Go leaves the order of a range over a map unspecified.
FindZipcodesWithinRadius(zc, keys, zipcodeLocation, maxRadius, earthRadius) ==
    Flatten([i \in 1..Len(keys) |->
                WithinRadiusOf(zc.DatasetList[keys[i]], zipcodeLocation,
                               maxRadius, earthRadius)])

\* The orders a range over the map may take.
RangeOrders(m) ==
    {o \in [1..Cardinality(DOMAIN m) -> DOMAIN m] :
        \A i, j \in 1..Cardinality(DOMAIN m) : i # j => o[i] # o[j]}

\* ------------------------------------------------------------- the state

VARIABLES
    file,         \* the lines of the file at DatasetPath
    pc,           \* "idle", "entry", "open", "scan", "returned", "exited"
    args,         \* the call: [fn, datasetPath, country]
    country,      \* loadDataset's country, upper-cased at line 174
    wantCountry,
    inCountry,
    pos,          \* the number of lines scanner.Scan() has delivered
    zipcodeMap,   \* loadDataset's zipcodeMap
    ret,          \* what the load returned: [zc, err]
    q             \* the last query on ret.zc: [op, arg, res, err]

vars == <<file, pc, args, country, wantCountry, inCountry, pos, zipcodeMap, ret, q>>

\* Zipcodes{}: the DatasetList is nil.
ZipcodesZero == [DatasetList |-> EmptyMap, isNil |-> TRUE]

ErrCountry == [kind |-> "country must be a 2 character ISO Country Code"]
ErrFields  == [kind |-> "zipcodes: file line does not have 12 fields"]
ErrScan    == [kind |-> "zipcodes: error while opening file"]
ErrLat(v)  == [kind |-> "zipcodes: error while converting to Latitude", value |-> v]
ErrLon(v)  == [kind |-> "zipcodes: error while converting to Longitude", value |-> v]

NoQuery == [op |-> "none", arg |-> <<>>, res |-> <<>>, err |-> NoError]

Init ==
    /\ file \in Files
    /\ pc = "idle"
    /\ args = [fn |-> "none", datasetPath |-> DatasetPath, country |-> <<>>]
    /\ country = <<>>
    /\ wantCountry = FALSE
    /\ inCountry = FALSE
    /\ pos = 0
    /\ zipcodeMap = ZipcodesZero
    /\ ret = [zc |-> ZipcodesZero, err |-> NoError]
    /\ q = NoQuery

\* ------------------------------------------------------------ the loader

\* LoadDataset (and New, which only calls it): loadDataset(datasetPath, "").
LoadDataset(datasetPath) ==
    /\ pc = "idle"
    /\ args' = [fn |-> "LoadDataset", datasetPath |-> datasetPath, country |-> <<>>]
    /\ country' = <<>>
    /\ pc' = "entry"
    /\ UNCHANGED <<file, wantCountry, inCountry, pos, zipcodeMap, ret, q>>

\* LoadDatasetByCountry (and NewByCountry): loadDataset(datasetPath, country).
LoadDatasetByCountry(datasetPath, c) ==
    /\ pc = "idle"
    /\ args' = [fn |-> "LoadDatasetByCountry", datasetPath |-> datasetPath, country |-> c]
    /\ country' = c
    /\ pc' = "entry"
    /\ UNCHANGED <<file, wantCountry, inCountry, pos, zipcodeMap, ret, q>>

\* The country is wanted when the argument is not the empty string.
WantCountry(c) == c # <<>>

\* The length check of the country argument: len(country) != 2.
BadCountry(c) == Len(c) # 2

\* loadDataset, lines 167-174: the flags, the check of the country argument
\* and its upper-casing.
CheckCountry ==
    /\ pc = "entry"
    /\ wantCountry' = WantCountry(country)
    /\ inCountry' = FALSE
    /\ IF WantCountry(country) /\ BadCountry(country)
       THEN /\ pc' = "returned"
            /\ ret' = [zc |-> ZipcodesZero, err |-> ErrCountry]
            /\ UNCHANGED country
       ELSE /\ pc' = "open"
            /\ country' = ToUpper(country)
            /\ UNCHANGED ret
    /\ UNCHANGED <<file, args, pos, zipcodeMap, q>>

\* loadDataset, lines 176-184: os.Open, the scanner and the empty map.  When
\* os.Open fails, log.Fatal(err) prints the error and calls os.Exit(1): the
\* process ends and the return of line 179 is never reached.
OpenFile ==
    /\ pc = "open"
    /\ IF args.datasetPath = DatasetPath
       THEN /\ pc' = "scan"
            /\ pos' = 0
            /\ zipcodeMap' = [DatasetList |-> EmptyMap, isNil |-> FALSE]
       ELSE /\ pc' = "exited"
            /\ UNCHANGED <<pos, zipcodeMap>>
    /\ UNCHANGED <<file, args, country, wantCountry, inCountry, ret, q>>

\* The ZipCodeLocation built from the fields of a line, lines 205-212.
Location(splittedLine, lat, lon) ==
    [ZipCode   |-> splittedLine[2],
     PlaceName |-> splittedLine[3],
     AdminName |-> splittedLine[4],
     Lat       |-> lat,
     Lon       |-> lon,
     StateCode |-> splittedLine[5]]

\* Only a line of fewer than 11 fields is refused.
WrongLengthBelow11(splittedLine) == Len(splittedLine) < NumFields - 1

\* Line 187: the line is malformed.
WrongLength(splittedLine) == Len(splittedLine) # NumFields

\* Line 191: the line is one to load.
Wanted(want, splittedLine, c) == ~want \/ splittedLine[1] = c

\* The scan goes on to the end of the file: a filter without the early exit.
LeftCountryNever(in, splittedLine, c) == FALSE

\* Line 213: lines of the country were taken and this one is of another.
LeftCountry(in, splittedLine, c) == in /\ splittedLine[1] # c

\* A conversion whose error is dropped.
ParseErrorIgnored(r) == FALSE

\* Lines 195 and 200: errLat != nil, errLon != nil.
ParseError(r) == ~r.ok

\* The record replaces the sequence of its code.
InsertOverwrite(m, splittedLine, lat, lon) ==
    MapPut(m, splittedLine[2], <<Location(splittedLine, lat, lon)>>)

\* Lines 204-212: the record appended to the sequence of its code.
Insert(m, splittedLine, lat, lon) ==
    MapPut(m, splittedLine[2],
           Append(MapGet(m, splittedLine[2]), Location(splittedLine, lat, lon)))

\* One turn of the loop of lines 185-216 on the next line of the file; a
\* return or the break ends the call in the same step (after the break
\* scanner.Err() is nil and line 222 returns the map).
ScanLine ==
    /\ pc = "scan"
    /\ pos < Len(file)
    /\ pos' = pos + 1
    /\ LET splittedLine == Split(file[pos + 1], TAB)
           lat == ParseFloat(splittedLine[10])
           lon == ParseFloat(splittedLine[11])
       IN  IF WrongLength(splittedLine)
           THEN /\ pc' = "returned"
                /\ ret' = [zc |-> ZipcodesZero, err |-> ErrFields]
                /\ UNCHANGED <<inCountry, zipcodeMap>>
           ELSE IF Wanted(wantCountry, splittedLine, country)
           THEN /\ inCountry' = TRUE
                /\ IF ParseError(lat)
                   THEN /\ pc' = "returned"
                        /\ ret' = [zc |-> ZipcodesZero, err |-> ErrLat(splittedLine[10])]
                        /\ UNCHANGED zipcodeMap
                   ELSE IF ParseError(lon)
                   THEN /\ pc' = "returned"
                        /\ ret' = [zc |-> ZipcodesZero, err |-> ErrLon(splittedLine[11])]
                        /\ UNCHANGED zipcodeMap
                   ELSE /\ zipcodeMap' =
                               [zipcodeMap EXCEPT !.DatasetList =
                                   Insert(@, splittedLine, lat.val, lon.val)]
                        /\ UNCHANGED <<pc, ret>>
           ELSE IF LeftCountry(inCountry, splittedLine, country)
           THEN /\ pc' = "returned"
                /\ ret' = [zc |-> zipcodeMap, err |-> NoError]
                /\ UNCHANGED <<inCountry, zipcodeMap>>
           ELSE UNCHANGED <<pc, ret, inCountry, zipcodeMap>>
    /\ UNCHANGED <<file, args, country, wantCountry, q>>

\* scanner.Scan() is false at the end of the file and scanner.Err() is nil:
\* lines 218-222 return the map.
ScanEOF ==
    /\ pc = "scan"
    /\ pos = Len(file)
    /\ pc' = "returned"
    /\ ret' = [zc |-> zipcodeMap, err |-> NoError]
    /\ UNCHANGED <<file, args, country, wantCountry, inCountry, pos, zipcodeMap, q>>

\* scanner.Scan() is false because the read failed: scanner.Err() is not
\* nil and lines 218-220 return it.
ScanFault ==
    /\ pc = "scan"
    /\ pc' = "returned"
    /\ ret' = [zc |-> ZipcodesZero, err |-> ErrScan]
    /\ UNCHANGED <<file, args, country, wantCountry, inCountry, pos, zipcodeMap, q>>

\* ----------------------------------------------------------- the queries

\* The load returned an index to its caller and the caller may query it.
\* The queries only read the index, so what one returns does not depend on
\* the queries before it: a behaviour holds one query.
Loaded == pc = "returned" /\ ret.err = NoError /\ q = NoQuery

\* Every record of the index.
Records(zc) == UNION {{zc.DatasetList[k][i] : i \in 1..Len(zc.DatasetList[k])} :
                        k \in DOMAIN zc.DatasetList}

\* The radii asked for: the distance of a record of the index from the
\* origin and the next value above it, or 50 when the index is empty.
Radii(zc, origin, earthRadius) ==
    IF Records(zc) = {} THEN {5000}
    ELSE UNION {{d, d + 1} : d \in {CalculateDistance(origin, r, earthRadius) :
                                        r \in Records(zc)}}

CallLookup(zipCode) ==
    /\ Loaded
    /\ LET r == Lookup(ret.zc, zipCode)
       IN  q' = [op |-> "Lookup", arg |-> zipCode, res |-> r.data, err |-> r.err]
    /\ UNCHANGED <<file, pc, args, country, wantCountry, inCountry, pos, zipcodeMap, ret>>

CallDistanceInKm(A, B) ==
    /\ Loaded
    /\ q' = [op |-> "DistanceInKm", arg |-> <<A, B>>, res |-> DistanceInKm(A, B),
             err |-> NoError]
    /\ UNCHANGED <<file, pc, args, country, wantCountry, inCountry, pos, zipcodeMap, ret>>

CallDistanceInMiles(A, B) ==
    /\ Loaded
    /\ q' = [op |-> "DistanceInMiles", arg |-> <<A, B>>, res |-> DistanceInMiles(A, B),
             err |-> NoError]
    /\ UNCHANGED <<file, pc, args, country, wantCountry, inCountry, pos, zipcodeMap, ret>>

\* GetZipcodesWithinKmRadius: FindZipcodesWithinRadius with earthRadiusKm.
CallGetZipcodesWithinKmRadius(origin, radius, order) ==
    /\ Loaded
    /\ q' = [op |-> "GetZipcodesWithinKmRadius",
             arg |-> [origin |-> origin, maxRadius |-> radius, earthRadius |-> earthRadiusKm],
             res |-> FindZipcodesWithinRadius(ret.zc, order, origin, radius, earthRadiusKm),
             err |-> NoError]
    /\ UNCHANGED <<file, pc, args, country, wantCountry, inCountry, pos, zipcodeMap, ret>>

\* GetZipcodesWithinMlRadius: FindZipcodesWithinRadius with earthRadiusMi.
CallGetZipcodesWithinMlRadius(origin, radius, order) ==
    /\ Loaded
    /\ q' = [op |-> "GetZipcodesWithinMlRadius",
             arg |-> [origin |-> origin, maxRadius |-> radius, earthRadius |-> earthRadiusMi],
             res |-> FindZipcodesWithinRadius(ret.zc, order, origin, radius, earthRadiusMi),
             err |-> NoError]
    /\ UNCHANGED <<file, pc, args, country, wantCountry, inCountry, pos, zipcodeMap, ret>>

Next ==
    \/ \E p \in Paths : LoadDataset(p)
    \/ \E p \in Paths, c \in CountryArgs : LoadDatasetByCountry(p, c)
    \/ CheckCountry
    \/ OpenFile
    \/ ScanLine
    \/ ScanEOF
    \/ ScanFault
    \/ \E zipCode \in Codes : CallLookup(zipCode)

\* The loader and Lookup, on every file of at most MaxLines lines.
Spec == Init /\ [][Next]_vars

\* The distance and radius queries, on the indexes LoadDataset builds from
\* the files of well formed lines.  (The index of a load by country is the
\* index LoadDataset builds from the lines that load accepted.)
GeoLineSet == {LineUS02a, LineUS02b, LineDE03, LineDE01}

GeoFiles == UNION {[1..n -> GeoLineSet] : n \in 0..MaxLines}

InitGeo ==
    /\ file \in GeoFiles
    /\ pc = "idle"
    /\ args = [fn |-> "none", datasetPath |-> DatasetPath, country |-> <<>>]
    /\ country = <<>>
    /\ wantCountry = FALSE
    /\ inCountry = FALSE
    /\ pos = 0
    /\ zipcodeMap = ZipcodesZero
    /\ ret = [zc |-> ZipcodesZero, err |-> NoError]
    /\ q = NoQuery

NextGeo ==
    \/ \E p \in Paths : LoadDataset(p)
    \/ CheckCountry
    \/ OpenFile
    \/ ScanLine
    \/ ScanEOF
    \/ ScanFault
    \/ Loaded /\ \E A, B \in Records(ret.zc) : CallDistanceInKm(A, B)
    \/ Loaded /\ \E A, B \in Records(ret.zc) : CallDistanceInMiles(A, B)
    \/ Loaded /\ \E origin \in Records(ret.zc) \cup {Probe} :
         \E radius \in Radii(ret.zc, origin, earthRadiusKm) :
           \E order \in RangeOrders(ret.zc.DatasetList) :
             CallGetZipcodesWithinKmRadius(origin, radius, order)
    \/ Loaded /\ \E origin \in Records(ret.zc) \cup {Probe} :
         \E radius \in Radii(ret.zc, origin, earthRadiusMi) :
           \E order \in RangeOrders(ret.zc.DatasetList) :
             CallGetZipcodesWithinMlRadius(origin, radius, order)

SpecGeo == InitGeo /\ [][NextGeo]_vars

\* ------------------------------------------------- the claims: the loader

\* The fields of line i of the file.
FieldsOf(i) == Split(file[i], TAB)

\* Line i splits into exactly 12 fields.
TwelveFields(i) == Len(FieldsOf(i)) = 12

\* The latitude (the tenth field) and the longitude (the eleventh) of a line
\* of 12 fields are numbers.
LatitudeParses(i) == ParseFloat(FieldsOf(i)[10]).ok
LongitudeParses(i) == ParseFloat(FieldsOf(i)[11]).ok

\* The record a line of 12 fields with numeric coordinates stands for.
RecordOf(i) ==
    [ZipCode   |-> FieldsOf(i)[2],
     PlaceName |-> FieldsOf(i)[3],
     AdminName |-> FieldsOf(i)[4],
     Lat       |-> ParseFloat(FieldsOf(i)[10]).val,
     Lon       |-> ParseFloat(FieldsOf(i)[11]).val,
     StateCode |-> FieldsOf(i)[5]]

\* The numbers of the lines of the file that carry the code, ascending.
RECURSIVE LinesCarrying(_, _)
LinesCarrying(code, n) ==
    IF n = 0 THEN <<>>
    ELSE IF FieldsOf(n)[2] = code THEN Append(LinesCarrying(code, n - 1), n)
    ELSE LinesCarrying(code, n - 1)

\* The records of the lines that carry the code, in the order of the file.
RecordsCarrying(code) ==
    [j \in 1..Len(LinesCarrying(code, Len(file))) |->
        RecordOf(LinesCarrying(code, Len(file))[j])]

\* A Lookup was called on the index of a successful LoadDataset.
LookedUpAfterLoadAll == q.op = "Lookup" /\ args.fn = "LoadDataset"

\* C1: after a successful load without country filter, Lookup of a code that
\* occurs on a line of the file returns a non-empty sequence holding exactly
\* the records of the lines that carry the code, one for each line, in the
\* order of the file.
C1_RoundTripLookup ==
    (LookedUpAfterLoadAll /\ \E i \in 1..Len(file) : FieldsOf(i)[2] = q.arg)
        => /\ q.res # <<>>
           /\ q.res = RecordsCarrying(q.arg)

\* C1 witness: the code looked up is on the first and the third line of the
\* file and not on the second, and Lookup returned the two records.
C1_Witness ==
    /\ LookedUpAfterLoadAll
    /\ Len(file) = 3
    /\ FieldsOf(1)[2] = q.arg
    /\ FieldsOf(2)[2] # q.arg
    /\ FieldsOf(3)[2] = q.arg
    /\ file[1] # file[3]
    /\ Len(q.res) = 2

\* C2: Lookup has three outcomes, decided by the number of records the index
\* holds under the code: no key, the not-found error and no data; one record,
\* that record and no error; two records or more, all of them and the
\* multiple-coordinates error.
C2_LookupOutcomes ==
    q.op = "Lookup" =>
        IF q.arg \notin DOMAIN ret.zc.DatasetList
        THEN q.err = [kind |-> "zipcode not found"] /\ q.res = <<>>
        ELSE IF Len(ret.zc.DatasetList[q.arg]) = 1
        THEN q.err = [kind |-> "nil"] /\ q.res = ret.zc.DatasetList[q.arg]
        ELSE /\ Len(ret.zc.DatasetList[q.arg]) >= 2
             /\ q.err = [kind |-> "zipcode has multiple lat/lon coordinates"]
             /\ q.res = ret.zc.DatasetList[q.arg]

\* C2 witness: a code with two records was looked up in an index that also
\* holds a code with one record.
C2_Witness ==
    /\ q.op = "Lookup"
    /\ Len(q.res) = 2
    /\ q.err = ErrMultipleLatLon
    /\ \E k \in DOMAIN ret.zc.DatasetList : Len(ret.zc.DatasetList[k]) = 1

\* The scan has read line i: scanner.Scan() delivered it.
LineRead(i) == pc \in {"scan", "returned"} /\ i \in 1..pos

\* The load failed with the error and returned no index.
FailedWith(err) == pc = "returned" /\ ret = [zc |-> ZipcodesZero, err |-> err]

Accepted(i) == ~wantCountry \/ FieldsOf(i)[1] = country

PastOpen == pc \in {"scan", "returned", "exited"} /\ args.fn # "none"

\* C5, as the claim has it: a load of a path that cannot be opened comes back
\* to its caller, with an error and no index.
C5_OpenFailureIsReturned ==
    (PastOpen /\ args.datasetPath = MissingPath)
        => pc = "returned" /\ ret.err # NoError /\ ret.zc = ZipcodesZero

\* C6, as the claim has it: every record of the index a load by country
\* returns is the record of a line whose country field is the upper-cased
\* filter.
C6_OnlyFilteredCountry ==
    (pc = "returned" /\ args.fn = "LoadDatasetByCountry" /\ ret.err = NoError)
        => \A r \in Records(ret.zc) :
               \E i \in 1..Len(file) :
                   /\ TwelveFields(i)
                   /\ FieldsOf(i)[1] = ToUpper(args.country)
                   /\ r = RecordOf(i)

\* C7, as the claim has it: a load by country whose country argument is not
\* 2 characters long fails with the configuration error and no index, and
\* does not come to open the file.
C7_CountryOfOtherLengthFails ==
    (args.fn = "LoadDatasetByCountry" /\ Len(args.country) # 2 /\ pc \notin {"idle", "entry"})
        => FailedWith([kind |-> "country must be a 2 character ISO Country Code"])

\* ------------------------------------------- the claims: radius, distance

\* A radius search was called on the index.
RadiusSearched == q.op \in {"GetZipcodesWithinKmRadius", "GetZipcodesWithinMlRadius"}

\* The places of the records in the index: key k, position j under it.
Entries(zc) ==
    {e \in (DOMAIN zc.DatasetList) \X (1..MaxLines) : e[2] <= Len(zc.DatasetList[e[1]])}

\* The distance of the record at entry e from the origin of the search, in
\* hundredths of the unit of the search.
FromOrigin(e) ==
    DistanceBetweenPoints(q.arg.origin.Lat, q.arg.origin.Lon,
                          ret.zc.DatasetList[e[1]][e[2]].Lat,
                          ret.zc.DatasetList[e[1]][e[2]].Lon, q.arg.earthRadius)

\* C8: the result of a radius search, in km or in miles, never holds the
\* postal code of the origin, whatever the coordinates of the records that
\* carry that code.
C8_RadiusExcludesOriginCode ==
    RadiusSearched => \A i \in 1..Len(q.res) : q.res[i] # q.arg.origin.ZipCode

\* C8 witness: the index holds a record of the origin's code at other
\* coordinates than the origin's and nearer than the radius, and the search
\* returned the code of another record.
C8_Witness ==
    /\ RadiusSearched
    /\ q.res # <<>>
    /\ \E e \in Entries(ret.zc) :
          /\ e[1] = q.arg.origin.ZipCode
          /\ ret.zc.DatasetList[e[1]][e[2]].Lat # q.arg.origin.Lat
          /\ FromOrigin(e) < q.arg.maxRadius

\* C9: the result of a radius search holds, for every code, as many entries
\* as the index holds records of that code, under whatever key and at
\* whatever position, whose code is not the origin's and whose distance from
\* the origin is strictly less than the radius; it holds nothing else.
C9_RadiusResultIsTheMultiset ==
    RadiusSearched =>
        /\ \A i \in 1..Len(q.res) : q.res[i] \in DOMAIN ret.zc.DatasetList
        /\ \A c \in DOMAIN ret.zc.DatasetList :
              Cardinality({i \in 1..Len(q.res) : q.res[i] = c})
                  = Cardinality({e \in Entries(ret.zc) :
                        /\ ret.zc.DatasetList[e[1]][e[2]].ZipCode = c
                        /\ c # q.arg.origin.ZipCode
                        /\ FromOrigin(e) < q.arg.maxRadius})

\* C9 witness: the search returned the same code twice, for two records of
\* it, and left out a record of another code whose distance is the radius.
C9_Witness ==
    /\ RadiusSearched
    /\ Len(q.res) = 2
    /\ q.res[1] = q.res[2]
    /\ \E e \in Entries(ret.zc) :
          /\ e[1] # q.arg.origin.ZipCode
          /\ FromOrigin(e) = q.arg.maxRadius

\* A distance was asked for.
DistanceAsked == q.op \in {"DistanceInKm", "DistanceInMiles"}

\* C10: the distance a call returned for the records A and B, in km or in
\* miles, is the distance DistanceBetweenPoints gives with the two points
\* swapped.
C10_DistanceIsSymmetric ==
    DistanceAsked =>
        q.res = DistanceBetweenPoints(q.arg[2].Lat, q.arg[2].Lon,
                                      q.arg[1].Lat, q.arg[1].Lon,
                                      IF q.op = "DistanceInKm" THEN 6371 ELSE 3958)

\* C10 witness: the distance in miles of two records that differ in latitude
\* and in longitude was asked for, and it is not zero.
C10_Witness ==
    /\ q.op = "DistanceInMiles"
    /\ q.arg[1].Lat # q.arg[2].Lat
    /\ q.arg[1].Lon # q.arg[2].Lon
    /\ q.arg[1].Lat # 0
    /\ q.res > 0

\* ------------------------------------------ the claims: early termination

\* A load with a country filter is scanning or has scanned.
FilteredScan == wantCountry /\ pc \in {"scan", "returned"}

\* The country field of line i is the filter.
Matches(i) == FieldsOf(i)[1] = country

\* A line before line i matches: the scan, having come to line i, took it.
MatchedBefore(i) == \E j \in 1..(i - 1) : Matches(j)

\* The numbers of the lines up to n that match and carry the code, ascending.
RECURSIVE MatchingCarrying(_, _)
MatchingCarrying(code, n) ==
    IF n = 0 THEN <<>>
    ELSE IF Matches(n) /\ FieldsOf(n)[2] = code
    THEN Append(MatchingCarrying(code, n - 1), n)
    ELSE MatchingCarrying(code, n - 1)

\* The index of the matching lines among the first n lines of the file.
IndexOfMatching(n) ==
    [code \in {FieldsOf(j)[2] : j \in {k \in 1..n : Matches(k)}} |->
        [x \in 1..Len(MatchingCarrying(code, n)) |->
            RecordOf(MatchingCarrying(code, n)[x])]]

\* C11, as the code has it: in a load with a country filter, a line of 12
\* fields of another country that the scan reads before any matching line
\* adds no record and does not end the scan (a load that returned an index
\* with such a line as the last one read had come to the end of the file);
\* one read after a
\* matching line is the last line read, and the load returned, without
\* error, the index of the matching lines before it, so that no later line
\* is read or added.
C11_EarlyTermination ==
    \A i \in 1..Len(file) :
        (FilteredScan /\ LineRead(i) /\ TwelveFields(i) /\ ~Matches(i))
            => IF MatchedBefore(i)
               THEN /\ i = pos
                    /\ pc = "returned"
                    /\ ret = [zc  |-> [DatasetList |-> IndexOfMatching(i - 1),
                                       isNil |-> FALSE],
                              err |-> [kind |-> "nil"]]
               ELSE /\ \A r \in Records(zipcodeMap) :
                          \E j \in 1..pos :
                              TwelveFields(j) /\ Matches(j) /\ r = RecordOf(j)
                    /\ (i = pos /\ pc = "returned" /\ ret.err = [kind |-> "nil"])
                           => pos = Len(file)

\* C11 witness: the first line matched, the second is of another country
\* and ended the scan, and the third, of the filtered country, was not read:
\* the load returned the record of the first line alone.
C11_Witness ==
    /\ FilteredScan
    /\ pc = "returned"
    /\ Len(file) = 3
    /\ pos = 2
    /\ Matches(1)
    /\ ~Matches(2)
    /\ Matches(3)
    /\ TwelveFields(3) /\ LatitudeParses(3) /\ LongitudeParses(3)
    /\ ret.err = NoError
    /\ Cardinality(Records(ret.zc)) = 1

\* C11, as the claim has it: once a matching line was taken, a line read
\* whose country field does not match ends the scan and the load returns
\* successfully.
C11_MismatchAfterMatchReturnsIndex ==
    \A i \in 1..Len(file) :
        (FilteredScan /\ LineRead(i) /\ ~Matches(i) /\ MatchedBefore(i))
            => pc = "returned" /\ ret.err = NoError

=============================================================================
